---- MODULE Spec2Model ----
(***************************************************************************)
(* A model of KeycloakClient (src/src/client.ts): the token set and its    *)
(* setToken / clearToken / isTokenExpired operations, the single-flight    *)
(* refresh of updateToken / runUpdateToken, and the login-URL / callback   *)
(* operations createLoginUrl, parseCallback, processCallback, authSuccess. *)
(*                                                                         *)
(* JavaScript runs the client on one thread: every action below is one     *)
(* synchronous run of the code, from a call (or the resumption after an    *)
(* await) to the next await or return.  The only suspension points are the *)
(* awaits on adapter.refreshTokens and adapter.fetchTokens.                *)
(***************************************************************************)
EXTENDS Integers, Sequences, FiniteSets, TLC

(***************************************************************************)
(* Bounds of the model.                                                    *)
(***************************************************************************)
MaxCallers == 2        \* logical callers of updateToken
MaxTicks == 1          \* clock advances
MaxPending == 1        \* entries the callback storage holds
MaxExchanges == 1      \* fetchTokens calls in flight

(***************************************************************************)
(* Values.  A JavaScript undefined / null / deleted property is Undefined; *)
(* an optional number is a sequence of length at most one.                 *)
(***************************************************************************)
Undefined == "undefined"
Truthy(s) == s # Undefined /\ s # ""

\* the clock, in milliseconds: it starts at 1000 and advances in steps of 500
Clock(n) == 1000 + n * 500

None == <<>>
Some(x) == <<x>>

\* a JavaScript object as a function from its property names
EmptyObject == [x \in {} |-> Undefined]
Get(o, k) == IF k \in DOMAIN o THEN o[k] ELSE Undefined
Restrict(o, ks) == [k \in (DOMAIN o) \cap ks |-> o[k]]

Callers == 1..MaxCallers

\* minValidity arguments: a number, NaN or +Infinity
Num(n) == [k |-> "num", v |-> n]
NaN == [k |-> "nan", v |-> 0]
Infinity == [k |-> "inf", v |-> 0]
DefaultMinValidity == 5
MinValidities == {Num(-1), Num(0), Num(DefaultMinValidity)}

(***************************************************************************)
(* The claims decoder (decodeToken of ./utils/keycloak): a pure function   *)
(* of the raw token that returns the claims, returns nothing, or throws.   *)
(***************************************************************************)
NoClaims ==
    [ok |-> FALSE, sub |-> Undefined, iat |-> 0, exp |-> 0, nonce |-> Undefined,
     realm_access |-> Undefined, resource_access |-> Undefined]

Claims(sub, iat, exp, nonce) ==
    [ok |-> TRUE, sub |-> sub, iat |-> iat, exp |-> exp, nonce |-> nonce,
     realm_access |-> "realm:" \o sub, resource_access |-> "res:" \o sub]

Tokens == {"A1", "A2", "R1", "I1", "X0", "XT"}

decodeToken(t) ==
    CASE t = "A1" -> [r |-> "ok", claims |-> Claims("u1", 1, 1, "N1")]
      [] t = "A2" -> [r |-> "ok", claims |-> Claims("u2", 1, 9, "N2")]
      [] t = "R1" -> [r |-> "ok", claims |-> Claims("u1", 1, 9, "N1")]
      [] t = "I1" -> [r |-> "ok", claims |-> Claims("u1", 1, 9, "N1")]
      [] t = "X0" -> [r |-> "none", claims |-> NoClaims]
      [] OTHER -> [r |-> "throw", claims |-> NoClaims]

(***************************************************************************)
(* What the transport collaborator can answer to a token request: it       *)
(* throws, or returns {access_token?, refresh_token?, id_token?, error?}.  *)
(***************************************************************************)
TokenResponse(err, a, r, i) ==
    [throws |-> FALSE, error |-> err, access_token |-> a, refresh_token |-> r,
     id_token |-> i]

TransportError ==
    [throws |-> TRUE, error |-> Undefined, access_token |-> Undefined,
     refresh_token |-> Undefined, id_token |-> Undefined]

TokenResponses ==
    {TransportError,
     TokenResponse("invalid_grant", Undefined, Undefined, Undefined),
     TokenResponse(Undefined, "A1", "R1", "I1"),
     TokenResponse(Undefined, "A2", "R1", Undefined),
     TokenResponse(Undefined, "A2", Undefined, Undefined),
     TokenResponse(Undefined, Undefined, "R1", "I1"),
     TokenResponse(Undefined, "X0", "R1", Undefined)}

Flows == {"standard", "implicit", "hybrid"}

VARIABLES
    \* configuration, set by init()
    flow, useNonce, loginRequired, responseMode, pkceMethod,
    \* the session (src/src/client.ts:47-73, 91, 105)
    authenticated, subject, realmAccess, resourceAccess,
    token, tokenParsed, refreshToken, refreshTokenParsed, idToken, idTokenParsed,
    timeSkew, tokenTimeoutHandle, refreshQueue,
    \* the environment: armed timers, refreshTokens and fetchTokens calls in
    \* flight, the adapter's callback storage, the clock
    timers, refreshCalls, exchangeCalls, callbackStorage, now,
    \* the Deferred of each caller's latest updateToken call, and the outcomes
    \* that the calls made during the current refresh have observed so far
    status, observed,
    \* where the init() call stands: not made, awaiting its forced refresh as
    \* caller c with the options o, or returned
    initCall,
    \* what the last action did: the operation, its outcome, its events in order
    last, log

config == <<flow, useNonce, loginRequired, responseMode, pkceMethod>>
session ==
    <<authenticated, subject, realmAccess, resourceAccess, token, tokenParsed,
      refreshToken, refreshTokenParsed, idToken, idTokenParsed, timeSkew,
      tokenTimeoutHandle, refreshQueue>>
vars ==
    <<config, session, timers, refreshCalls, exchangeCalls, callbackStorage, now,
      status, observed, initCall, last, log>>

\* the raw and parsed tokens with authenticated: the session's token state
TokenState(m) ==
    <<m.authenticated, m.subject, m.token, m.tokenParsed, m.refreshToken,
      m.refreshTokenParsed, m.idToken, m.idTokenParsed>>

(***************************************************************************)
(* The mutable state as one record, so that the code's nested calls        *)
(* compose as functions of it.  exc is the exception in flight, if any.    *)
(* status[c] is the Deferred of caller c's updateToken call: pending, or   *)
(* how the last action settled it; log is what the last action did.        *)
(***************************************************************************)
Cur ==
    [authenticated |-> authenticated, subject |-> subject,
     realmAccess |-> realmAccess, resourceAccess |-> resourceAccess,
     token |-> token, tokenParsed |-> tokenParsed,
     refreshToken |-> refreshToken, refreshTokenParsed |-> refreshTokenParsed,
     idToken |-> idToken, idTokenParsed |-> idTokenParsed,
     timeSkew |-> timeSkew, tokenTimeoutHandle |-> tokenTimeoutHandle,
     refreshQueue |-> refreshQueue, timers |-> timers,
     refreshCalls |-> refreshCalls, exchangeCalls |-> exchangeCalls,
     status |-> [c \in Callers |->
                   IF status[c] = "pending" THEN "pending" ELSE "idle"],
     log |-> <<>>, exc |-> Undefined]

\* The outcomes observed by the updateToken calls of one refresh: those made,
\* with a refresh token present, from the dispatch of adapter.refreshTokens
\* to its answer.  evs are the events of the action that ran.
Observed(evs) ==
    LET es == {evs[i].e : i \in DOMAIN evs}
    IN  IF "refreshTokens" \in es THEN {}
        ELSE IF es \cap {"resolved_true", "rejected_refresh"} # {}
        THEN observed \cup (es \cap {"resolved_true", "rejected_refresh"})
        ELSE IF refreshCalls # <<>>
        THEN observed \cup (es \cap {"resolved_false"})
        ELSE observed

Commit(m) ==
    /\ authenticated' = m.authenticated
    /\ subject' = m.subject
    /\ realmAccess' = m.realmAccess
    /\ resourceAccess' = m.resourceAccess
    /\ token' = m.token
    /\ tokenParsed' = m.tokenParsed
    /\ refreshToken' = m.refreshToken
    /\ refreshTokenParsed' = m.refreshTokenParsed
    /\ idToken' = m.idToken
    /\ idTokenParsed' = m.idTokenParsed
    /\ timeSkew' = m.timeSkew
    /\ tokenTimeoutHandle' = m.tokenTimeoutHandle
    /\ refreshQueue' = m.refreshQueue
    /\ timers' = m.timers
    /\ refreshCalls' = m.refreshCalls
    /\ exchangeCalls' = m.exchangeCalls
    /\ status' = m.status
    /\ observed' = Observed(m.log)
    /\ log' = m.log

Ev(name) == [e |-> name, c |-> 0]
EvC(name, c) == [e |-> name, c |-> c]
Emit(m, ev) == [m EXCEPT !.log = Append(@, ev)]
Throw(m, msg) == [m EXCEPT !.exc = msg]

(***************************************************************************)
(* isTokenExpired (client.ts:411-437).  The result is the value returned,  *)
(* or the exception thrown.                                                *)
(***************************************************************************)
Ceil1000(ms) == (ms + 999) \div 1000

\* JavaScript's truthiness of a number, and isNaN
TruthyNumber(mv) == mv.k = "inf" \/ (mv.k = "num" /\ mv.v # 0)
isNaN(mv) == mv.k = "nan"

\* A faulty isTokenExpired: minValidity is added to the remaining time
isTokenExpired_added(m, minValidity) ==
    IF ~m.tokenParsed.ok \/ (~Truthy(m.refreshToken) /\ flow # "implicit")
    THEN [throws |-> "Not authenticated", value |-> FALSE]
    ELSE IF m.timeSkew = None
    THEN [throws |-> Undefined, value |-> TRUE]
    ELSE [throws |-> Undefined,
          value |-> IF minValidity.k = "num"
                    THEN m.tokenParsed.exp - Ceil1000(now) + m.timeSkew[1]
                            + minValidity.v < 0
                    ELSE minValidity.k = "inf"]

isTokenExpired(m, minValidity) ==
    IF ~m.tokenParsed.ok \/ (~Truthy(m.refreshToken) /\ flow # "implicit")
    THEN [throws |-> "Not authenticated", value |-> FALSE]
    ELSE IF m.timeSkew = None
    THEN [throws |-> Undefined, value |-> TRUE]
    ELSE LET expiresIn == m.tokenParsed.exp - Ceil1000(now) + m.timeSkew[1]
         IN  IF TruthyNumber(minValidity)
             THEN IF isNaN(minValidity)
                  THEN [throws |-> "Invalid minValidity", value |-> FALSE]
                  ELSE [throws |-> Undefined,
                        value |-> IF minValidity.k = "inf" THEN TRUE
                                  ELSE expiresIn - minValidity.v < 0]
             ELSE [throws |-> Undefined, value |-> expiresIn < 0]

(***************************************************************************)
(* updateToken (client.ts:536-547) and the synchronous part of             *)
(* runUpdateToken (client.ts:439-472), up to its await on                  *)
(* adapter.refreshTokens.  c is the caller whose Deferred this call makes. *)
(***************************************************************************)
RefreshRequest(m) ==
    [timeLocal |-> now, grant_type |-> "refresh_token",
     refresh_token |-> m.refreshToken]

\* A faulty isDispatcher: every call that needs a refresh dispatches one
isDispatcher_every(q) == Len(q) >= 1

\* this.refreshQueue.length === 1, after the push
isDispatcher(q) == Len(q) = 1

\* A faulty shouldRefreshToken: minValidity -1 does not force the refresh
shouldRefreshToken_unforced(m, minValidity) ==
    \/ ~m.tokenParsed.ok
    \/ isTokenExpired(m, minValidity).value

shouldRefreshToken(m, minValidity) ==
    \/ minValidity = Num(-1)
    \/ ~m.tokenParsed.ok
    \/ isTokenExpired(m, minValidity).value

runUpdateToken(m, c, minValidity) ==
    IF /\ minValidity # Num(-1)
       /\ m.tokenParsed.ok
       /\ isTokenExpired(m, minValidity).throws # Undefined
    THEN \* the async function rejects; nothing settles the Deferred
         Emit(m, EvC("unhandledRejection", c))
    ELSE IF ~shouldRefreshToken(m, minValidity)
    THEN Emit([m EXCEPT !.status[c] = "resolved_false"], EvC("resolved_false", c))
    ELSE LET q == Append(m.refreshQueue, c)
             m1 == [m EXCEPT !.refreshQueue = q]
         IN  IF isDispatcher(q)
             THEN Emit([m1 EXCEPT !.refreshCalls = Append(@, RefreshRequest(m))],
                       EvC("refreshTokens", c))
             ELSE m1

\* A faulty updateToken: the missing refresh token is not checked
updateToken_unchecked(m, c, minValidity) ==
    runUpdateToken(Emit([m EXCEPT !.status[c] = "pending"], EvC("updateToken", c)),
                   c, minValidity)

updateToken(m, c, minValidity) ==
    LET m1 == Emit([m EXCEPT !.status[c] = "pending"], EvC("updateToken", c))
    IN  IF ~Truthy(m1.refreshToken)
        THEN Emit([m1 EXCEPT !.status[c] = "rejected_missing"],
                  EvC("rejected_missing", c))
        ELSE runUpdateToken(m1, c, minValidity)

(***************************************************************************)
(* A notification hook.  Hooks are synchronous host callbacks; h says      *)
(* which hook of the running action, if any, calls updateToken in turn     *)
(* (for a caller that has no call outstanding).                            *)
(***************************************************************************)
NoReentry == "none"
Reentries(hooks) == {NoReentry} \cup hooks

\* the caller a re-entrant call is made for: callers differ only in name
FreeCaller(m) == CHOOSE c \in Callers :
                    /\ m.status[c] # "pending"
                    /\ \A d \in 1..(c - 1) : m.status[d] = "pending"

Notify(m, name, h) ==
    LET m1 == Emit(m, Ev(name))
    IN  IF h = name /\ \E c \in Callers : m1.status[c] # "pending"
        THEN updateToken(m1, FreeCaller(m1), Num(DefaultMinValidity))
        ELSE m1

(***************************************************************************)
(* setToken (client.ts:856-935).  timeLocal is None when the argument is   *)
(* omitted.                                                                *)
(***************************************************************************)
FreshTimer(m) ==
    CHOOSE i \in 1..(Cardinality(m.timers) + 2) :
        /\ i \notin m.timers
        /\ i # m.tokenTimeoutHandle
        /\ \A j \in 1..(i - 1) : j \in m.timers \/ j = m.tokenTimeoutHandle

\* A faulty setTokenTimer: the handle is forgotten, the timer not cancelled
setTokenTimer_kept(m) ==
    IF m.tokenTimeoutHandle # 0
    THEN Emit([m EXCEPT !.tokenTimeoutHandle = 0], Ev("clearTimeout"))
    ELSE m

setTokenTimer(m) ==
    IF m.tokenTimeoutHandle # 0
    THEN Emit([m EXCEPT !.timers = @ \ {m.tokenTimeoutHandle},
                        !.tokenTimeoutHandle = 0], Ev("clearTimeout"))
    ELSE m

setTokenRefresh(m, rt) ==
    IF Truthy(rt)
    THEN LET d == decodeToken(rt)
             m1 == [m EXCEPT !.refreshToken = rt]
         IN  IF d.r = "throw" THEN Throw(m1, "Invalid token")
             ELSE [m1 EXCEPT !.refreshTokenParsed = d.claims]
    ELSE [m EXCEPT !.refreshToken = Undefined, !.refreshTokenParsed = NoClaims]

setTokenId(m, it) ==
    IF Truthy(it)
    THEN LET d == decodeToken(it)
             m1 == [m EXCEPT !.idToken = it]
         IN  IF d.r = "throw" THEN Throw(m1, "Invalid token")
             ELSE [m1 EXCEPT !.idTokenParsed = d.claims]
    ELSE [m EXCEPT !.idToken = Undefined, !.idTokenParsed = NoClaims]

setTokenExpiry(m, h) ==
    IF m.timeSkew = None THEN m
    ELSE LET expiresIn == m.tokenParsed.exp * 1000 - now + m.timeSkew[1] * 1000
         IN  IF expiresIn <= 0
             THEN Notify(m, "onTokenExpired", h)
             ELSE LET t == FreshTimer(m)
                  IN  [m EXCEPT !.tokenTimeoutHandle = t, !.timers = @ \cup {t}]

setTokenAccess(m, tk, timeLocal, h) ==
    IF Truthy(tk)
    THEN LET d == decodeToken(tk)
             m1 == [m EXCEPT !.token = tk]
         IN  IF d.r = "throw" THEN Throw(m1, "Invalid token")
             ELSE IF d.r = "none"
             THEN Throw([m1 EXCEPT !.tokenParsed = NoClaims], "Invalid tokenParsed")
             ELSE LET m2 == [m1 EXCEPT !.tokenParsed = d.claims,
                                       !.authenticated = TRUE,
                                       !.subject = d.claims.sub,
                                       !.realmAccess = d.claims.realm_access,
                                       !.resourceAccess = d.claims.resource_access]
                      m3 == IF timeLocal # None /\ timeLocal[1] # 0
                            THEN [m2 EXCEPT !.timeSkew =
                                     Some((timeLocal[1] \div 1000) - d.claims.iat)]
                            ELSE m2
                  IN  setTokenExpiry(m3, h)
    ELSE [m EXCEPT !.token = Undefined, !.tokenParsed = NoClaims,
                   !.subject = Undefined, !.realmAccess = Undefined,
                   !.resourceAccess = Undefined, !.authenticated = FALSE]

setToken(m, tk, rt, it, timeLocal, h) ==
    LET m0 == Emit(setTokenTimer(m), Ev("setToken"))
        m1 == setTokenRefresh(m0, rt)
        m2 == IF m1.exc # Undefined THEN m1 ELSE setTokenId(m1, it)
    IN  IF m2.exc # Undefined THEN m2 ELSE setTokenAccess(m2, tk, timeLocal, h)

(***************************************************************************)
(* clearToken (client.ts:555-566).  login() hands over to the adapter.     *)
(***************************************************************************)
clearToken(m, h) ==
    IF Truthy(m.token)
    THEN LET m1 == setToken(m, Undefined, Undefined, Undefined, None, h)
             m2 == Notify(m1, "onAuthLogout", h)
         IN  IF loginRequired THEN Emit(m2, Ev("login")) ELSE m2
    ELSE m

(***************************************************************************)
(* The rest of runUpdateToken (client.ts:473-513): what the dispatching    *)
(* call does once adapter.refreshTokens has answered request req with resp.*)
(***************************************************************************)
Reverse(q) == [i \in 1..Len(q) |-> q[Len(q) + 1 - i]]

\* A faulty drainQueue: only the waiter on top of the queue is settled
drainQueue_one(m, outcome) ==
    LET q == m.refreshQueue
        c == q[Len(q)]
    IN  IF q = <<>> THEN m
        ELSE [m EXCEPT !.refreshQueue = SubSeq(q, 1, Len(q) - 1),
                       !.status[c] = outcome,
                       !.log = Append(@, EvC(outcome, c))]

\* for (p = refreshQueue.pop(); p != null; p = refreshQueue.pop()) p.settle()
drainQueue(m, outcome) ==
    LET q == Reverse(m.refreshQueue)
    IN  [m EXCEPT !.refreshQueue = <<>>,
                  !.status = [c \in Callers |->
                                 IF \E i \in 1..Len(q) : q[i] = c
                                 THEN outcome ELSE m.status[c]],
                  !.log = @ \o [i \in 1..Len(q) |-> EvC(outcome, q[i])]]

refreshFailed(m, h) ==
    drainQueue(Notify([m EXCEPT !.exc = Undefined], "onAuthRefreshError", h),
               "rejected_refresh")

\* A faulty refreshAnswered: the waiters are resolved before the new tokens
\* are committed
refreshAnswered_early(m, req, resp, h) ==
    IF resp.throws
    THEN refreshFailed(m, h)
    ELSE IF Truthy(resp.error)
    THEN refreshFailed(clearToken(m, h), h)
    ELSE LET m0 == drainQueue(m, "resolved_true")
             m1 == setToken(m0, resp.access_token, resp.refresh_token,
                            resp.id_token, Some((req.timeLocal + now) \div 2), h)
         IN  IF m1.exc # Undefined
             THEN refreshFailed(m1, h)
             ELSE Notify(m1, "onAuthRefreshSuccess", h)

refreshAnswered(m, req, resp, h) ==
    IF resp.throws
    THEN refreshFailed(m, h)
    ELSE IF Truthy(resp.error)
    THEN refreshFailed(clearToken(m, h), h)
    ELSE LET timeLocal == (req.timeLocal + now) \div 2
             m1 == setToken(m, resp.access_token, resp.refresh_token,
                            resp.id_token, Some(timeLocal), h)
         IN  IF m1.exc # Undefined
             THEN refreshFailed(m1, h)
             ELSE drainQueue(Notify(m1, "onAuthRefreshSuccess", h),
                             "resolved_true")

(***************************************************************************)
(* createLoginUrl (client.ts:269-366).  options is the KeycloakLoginOptions*)
(* object; state, nonce and the PKCE verifier are the random values drawn. *)
(* The result is the CallbackState added to the storage and the URL.       *)
(***************************************************************************)
ClientId == "app"
DefaultRedirectUri == "https://app/callback"

\* adapter.redirectUri(options)
redirectUriOf(options) ==
    IF Truthy(Get(options, "redirectUri")) THEN options["redirectUri"]
    ELSE DefaultRedirectUri

generatePkceChallenge(method, verifier) == method \o "(" \o verifier \o ")"

responseTypeOf(f) ==
    CASE f = "standard" -> "code"
      [] f = "implicit" -> "id_token token"
      [] OTHER -> "code id_token token"

\* scopeOption.indexOf('openid') !== -1, for the scopes the model passes
ContainsOpenid(scope) == scope \in {"openid", "openid email"}

SetIf(o, cond, k, v) == IF cond THEN [x \in DOMAIN o \cup {k} |-> IF x = k THEN v ELSE o[x]] ELSE o

NamedOptions ==
    {"scope", "redirectUri", "prompt", "action", "maxAge", "loginHint", "idpHint",
     "locale"}

callbackStateOf(options, state, nonce, verifier) ==
    [state |-> state, nonce |-> nonce,
     pkceCodeVerifier |-> IF Truthy(pkceMethod) THEN verifier ELSE Undefined,
     prompt |-> Get(options, "prompt"),
     redirectUri |-> redirectUriOf(options)]

loginUrlOf(options, state, nonce, verifier) ==
    LET scopeOption == Get(options, "scope")
        prompt == Get(options, "prompt")
        action == Get(options, "action")
        scope == IF Truthy(scopeOption)
                 THEN IF ContainsOpenid(scopeOption) THEN scopeOption
                      ELSE "openid " \o scopeOption
                 ELSE "openid"
        p0 == [k \in {"client_id", "redirect_uri", "state", "response_mode",
                      "response_type", "scope"} |->
                 CASE k = "client_id" -> ClientId
                   [] k = "redirect_uri" -> redirectUriOf(options)
                   [] k = "state" -> state
                   [] k = "response_mode" -> responseMode
                   [] k = "response_type" -> responseTypeOf(flow)
                   [] OTHER -> scope]
        p1 == SetIf(p0, useNonce, "nonce", nonce)
        p2 == SetIf(p1, Truthy(prompt), "prompt", prompt)
        p3 == SetIf(p2, Truthy(Get(options, "maxAge")), "max_age",
                    Get(options, "maxAge"))
        p4 == SetIf(p3, Truthy(Get(options, "loginHint")), "login_hint",
                    Get(options, "loginHint"))
        p5 == SetIf(p4, Truthy(Get(options, "idpHint")), "kc_idp_hint",
                    Get(options, "idpHint"))
        p6 == SetIf(p5, Truthy(action) /\ action # "register", "kc_action", action)
        p7 == SetIf(p6, Truthy(Get(options, "locale")), "ui_locales",
                    Get(options, "locale"))
        p8 == SetIf(p7, Truthy(pkceMethod), "code_challenge",
                    generatePkceChallenge(pkceMethod, verifier))
        p9 == SetIf(p8, Truthy(pkceMethod), "code_challenge_method", pkceMethod)
        rest == Restrict(options, (DOMAIN options) \ NamedOptions)
    IN  [base |-> IF action = "register" THEN "register" ELSE "authorize",
         params |-> [k \in DOMAIN p9 \cup DOMAIN rest |->
                        IF k \in DOMAIN rest THEN rest[k] ELSE p9[k]]]

\* callbackStorage.add and callbackStorage.get of the adapter's storage
storageAdd(store, cs) ==
    [k \in DOMAIN store \cup {cs.state} |-> IF k = cs.state THEN cs ELSE store[k]]

storageHas(store, state) == state \in DOMAIN store

(***************************************************************************)
(* parseCallbackUrl (client.ts:1028-1121) and parseCallback                *)
(* (client.ts:775-795).  A URL is its query and its fragment component,    *)
(* each absent (None) or the parameters it carries.                        *)
(***************************************************************************)
supportedParams(f) ==
    (CASE f = "standard" -> {"code", "state", "session_state", "kc_action_status"}
       [] f = "implicit" -> {"access_token", "token_type", "id_token", "state",
                             "session_state", "expires_in", "kc_action_status"}
       [] f = "hybrid" -> {"access_token", "id_token", "code", "state",
                           "session_state", "kc_action_status"}
       [] OTHER -> {})
    \cup {"error", "error_description", "error_uri"}

\* parseCallbackParams of ./utils/keycloak: the recognized parameters, and
\* the string of the others
parseCallbackParams(params, supported) ==
    [oauthParams |-> Restrict(params, supported),
     paramsString |-> Restrict(params, (DOMAIN params) \ supported)]

Component(residual) == IF DOMAIN residual = {} THEN None ELSE Some(residual)

parseCallbackUrl(url) ==
    LET inQuery == responseMode = "query" /\ url.q # None
        inFragment == ~inQuery /\ responseMode = "fragment" /\ url.f # None
        parsed == IF inQuery THEN parseCallbackParams(url.q[1], supportedParams(flow))
                  ELSE parseCallbackParams(url.f[1], supportedParams(flow))
        newUrl == IF inQuery
                  THEN [q |-> Component(parsed.paramsString), f |-> url.f]
                  ELSE [q |-> url.q, f |-> Component(parsed.paramsString)]
        o == parsed.oauthParams
        found ==
            IF flow \in {"standard", "hybrid"}
            THEN (Truthy(Get(o, "code")) \/ Truthy(Get(o, "error")))
                 /\ Truthy(Get(o, "state"))
            ELSE flow = "implicit"
                 /\ (Truthy(Get(o, "access_token")) \/ Truthy(Get(o, "error")))
                 /\ Truthy(Get(o, "state"))
    IN  IF (inQuery \/ inFragment) /\ found
        THEN [k \in DOMAIN o \cup {"newUrl"} |-> IF k = "newUrl" THEN newUrl ELSE o[k]]
        ELSE EmptyObject

StoredFields == {"valid", "redirectUri", "storedNonce", "prompt", "pkceCodeVerifier"}

\* A faulty parseCallback: the stored state is handed back in place of the stored nonce
parseCallback_state(store, url) ==
    LET oauthParsed == parseCallbackUrl(url)
        state == Get(oauthParsed, "state")
    IN  IF storageHas(store, state)
        THEN LET oauthState == store[state]
             IN  [k \in DOMAIN oauthParsed \cup StoredFields |->
                    CASE k = "valid" -> "true"
                      [] k = "redirectUri" -> oauthState.redirectUri
                      [] k = "storedNonce" -> oauthState.state
                      [] k = "prompt" -> oauthState.prompt
                      [] k = "pkceCodeVerifier" -> oauthState.pkceCodeVerifier
                      [] OTHER -> oauthParsed[k]]
        ELSE oauthParsed

parseCallback(store, url) ==
    LET oauthParsed == parseCallbackUrl(url)
        state == Get(oauthParsed, "state")
    IN  IF storageHas(store, state)
        THEN LET oauthState == store[state]
             IN  [k \in DOMAIN oauthParsed \cup StoredFields |->
                    CASE k = "valid" -> "true"
                      [] k = "redirectUri" -> oauthState.redirectUri
                      [] k = "storedNonce" -> oauthState.nonce
                      [] k = "prompt" -> oauthState.prompt
                      [] k = "pkceCodeVerifier" -> oauthState.pkceCodeVerifier
                      [] OTHER -> oauthParsed[k]]
        ELSE oauthParsed

(***************************************************************************)
(* authSuccess (client.ts:739-770): tokens is the access, refresh and id   *)
(* token of oauthObj.                                                      *)
(***************************************************************************)
nonceMismatch(m, storedNonce) ==
    \/ m.tokenParsed.ok /\ m.tokenParsed.nonce # storedNonce
    \/ m.refreshTokenParsed.ok /\ m.refreshTokenParsed.nonce # storedNonce
    \/ m.idTokenParsed.ok /\ m.idTokenParsed.nonce # storedNonce

authSuccess(m, tokens, storedNonce, timeLocal, fulfillPromise, h) ==
    LET m1 == setToken(m, tokens[1], tokens[2], tokens[3],
                       Some((timeLocal + now) \div 2), h)
    IN  IF m1.exc # Undefined THEN m1
        ELSE IF useNonce /\ nonceMismatch(m1, storedNonce)
        THEN Throw(clearToken(Emit(m1, Ev("invalidNonce")), h),
                   "invalid nonce, token cleared")
        ELSE IF fulfillPromise THEN Notify(m1, "onAuthSuccess", h)
        ELSE m1

(***************************************************************************)
(* processCallback (client.ts:670-737): up to its await on                 *)
(* adapter.fetchTokens, and from the answer on.                            *)
(***************************************************************************)
\* A faulty ExchangeRequest: the PKCE verifier is never sent
ExchangeRequest_unverified(oauth) ==
    [k \in {"code", "grant_type", "client_id", "redirect_uri"} |->
        CASE k = "code" -> oauth["code"]
          [] k = "grant_type" -> "authorization_code"
          [] k = "client_id" -> ClientId
          [] OTHER -> Get(oauth, "redirectUri")]

ExchangeRequest(oauth) ==
    LET p == [k \in {"code", "grant_type", "client_id", "redirect_uri"} |->
                CASE k = "code" -> oauth["code"]
                  [] k = "grant_type" -> "authorization_code"
                  [] k = "client_id" -> ClientId
                  [] OTHER -> Get(oauth, "redirectUri")]
    IN  SetIf(p, Truthy(Get(oauth, "pkceCodeVerifier")), "code_verifier",
              Get(oauth, "pkceCodeVerifier"))

\* A faulty processCallback: an error in the callback is passed over in
\* silence whatever the prompt
processCallback_silent(m, oauth, h) ==
    IF Truthy(Get(oauth, "error")) THEN m
    ELSE IF flow # "implicit" /\ Truthy(Get(oauth, "code"))
    THEN Emit([m EXCEPT !.exchangeCalls =
                  Append(@, [request |-> ExchangeRequest(oauth),
                             oauth |-> oauth, timeLocal |-> now])],
              Ev("fetchTokens"))
    ELSE m

processCallback(m, oauth, h) ==
    LET m0 == IF Truthy(Get(oauth, "kc_action_status"))
              THEN Notify(m, "onActionUpdate", h) ELSE m
    IN  IF Truthy(Get(oauth, "error"))
        THEN IF Get(oauth, "prompt") # "none"
             THEN Throw(Notify(m0, "onAuthError", h), "authorization error")
             ELSE m0
        ELSE IF /\ flow # "standard"
                /\ Truthy(Get(oauth, "access_token")) \/ Truthy(Get(oauth, "id_token"))
        THEN authSuccess(m0, <<Get(oauth, "access_token"), Get(oauth, "refresh_token"),
                               Get(oauth, "id_token")>>,
                         Get(oauth, "storedNonce"), now, TRUE, h)
        ELSE IF flow # "implicit" /\ Truthy(Get(oauth, "code"))
        THEN Emit([m0 EXCEPT !.exchangeCalls =
                      Append(@, [request |-> ExchangeRequest(oauth),
                                 oauth |-> oauth, timeLocal |-> now])],
                  Ev("fetchTokens"))
        ELSE m0

exchangeFailed(m, h) ==
    Throw(Notify([m EXCEPT !.exc = Undefined], "onAuthError", h), "exchange error")

exchangeAnswered(m, call, resp, h) ==
    IF resp.throws
    THEN exchangeFailed(m, h)
    ELSE LET m1 == authSuccess(m, <<resp.access_token, resp.refresh_token,
                                    resp.id_token>>,
                               Get(call.oauth, "storedNonce"), call.timeLocal,
                               flow = "standard", h)
         IN  IF m1.exc # Undefined THEN exchangeFailed(m1, h) ELSE m1


(***************************************************************************)
(* init (client.ts:120-218) from processInit on.  o is the part of the     *)
(* KeycloakInitOptions that processInit reads.  processInit runs up to its *)
(* await of updateToken(-1): await is the caller whose Deferred it awaits, *)
(* or 0 when it has returned or thrown.                                    *)
(***************************************************************************)
InitOptionsOf(tk, rt, it, ol) ==
    [token |-> tk, refreshToken |-> rt, idToken |-> it, onLoad |-> ol]
NoOptions == InitOptionsOf(Undefined, Undefined, Undefined, Undefined)

onLoad(m, o) ==
    IF o.onLoad = "login-required" THEN Emit(m, Ev("login"))
    ELSE IF o.onLoad = "check-sso" THEN m
    ELSE \* the async function rejects; nothing awaits it
         Emit(m, Ev("unhandledRejection"))

processInit(m, o, h) ==
    IF Truthy(o.token) /\ Truthy(o.refreshToken)
    THEN LET m1 == setToken(m, o.token, o.refreshToken, o.idToken, None, h)
             c == FreeCaller(m1)
         IN  IF m1.exc # Undefined
             THEN [m |-> m1, await |-> 0]
             ELSE [m |-> updateToken(m1, c, Num(-1)), await |-> c]
    ELSE [m |-> IF Truthy(o.onLoad) THEN onLoad(m, o) ELSE m, await |-> 0]

\* processInit after the await (client.ts:808-823): outcome is how the
\* awaited Deferred was settled
processInitResumed(m, outcome, o, h) ==
    IF outcome \in {"resolved_true", "resolved_false"}
    THEN Notify(m, "onAuthSuccess", h)
    ELSE LET m1 == Notify(m, "onAuthError", h)
         IN  IF Truthy(o.onLoad) THEN onLoad(m1, o)
             ELSE Throw(m1, "Failed to init")

\* init after processInit (client.ts:212-217)
initReturns(m, h) ==
    IF m.exc # Undefined THEN m
    ELSE Notify(m, IF m.authenticated THEN "onReady_true" ELSE "onReady_false", h)

\* what the promise of init settles to
initResult(m) ==
    IF m.exc # Undefined THEN "failed"
    ELSE IF m.authenticated THEN "true" ELSE "false"

RemoveAt(q, i) == [j \in 1..(Len(q) - 1) |-> IF j < i THEN q[j] ELSE q[j + 1]]

(***************************************************************************)
(* The state after init() with no stored tokens (client.ts:120-205).       *)
(***************************************************************************)
Last(op, c, mv, arg, out) == [op |-> op, c |-> c, mv |-> mv, arg |-> arg, out |-> out]

Constructed(flows, nonces, logins, modes, pkces) ==
    /\ flow \in flows
    /\ useNonce \in nonces
    /\ loginRequired \in logins
    /\ responseMode \in modes
    /\ pkceMethod \in pkces
    /\ exchangeCalls = <<>>
    /\ callbackStorage = EmptyObject
    /\ authenticated = FALSE
    /\ subject = Undefined
    /\ realmAccess = Undefined
    /\ resourceAccess = Undefined
    /\ token = Undefined
    /\ tokenParsed = NoClaims
    /\ refreshToken = Undefined
    /\ refreshTokenParsed = NoClaims
    /\ idToken = Undefined
    /\ idTokenParsed = NoClaims
    /\ timeSkew = None
    /\ tokenTimeoutHandle = 0
    /\ refreshQueue = <<>>
    /\ timers = {}
    /\ refreshCalls = <<>>
    /\ now = Clock(0)
    /\ status = [c \in Callers |-> "idle"]
    /\ observed = {}
    /\ last = Last("init", 0, Num(0), TransportError, Undefined)
    /\ log = <<>>

InitCallOf(pc, c, o) == [pc |-> pc, c |-> c, o |-> o]

InitWith(flows, nonces, logins, modes, pkces) ==
    /\ Constructed(flows, nonces, logins, modes, pkces)
    /\ initCall = InitCallOf("returned", 0, NoOptions)

(***************************************************************************)
(* The actions: the host's calls, and the environment's events.            *)
(***************************************************************************)
\* the host calls updateToken(minValidity); its previous call has settled
UpdateToken(c, mv) ==
    /\ status[c] # "pending"
    /\ \E m \in {updateToken(Cur, c, mv)} :
           /\ Commit(m)
           /\ last' = Last("updateToken", c, mv, TransportError, m.status[c])
    /\ UNCHANGED <<config, initCall, callbackStorage, now>>

\* adapter.refreshTokens answers the i-th call in flight
RefreshAnswer(i, resp, h) ==
    /\ i \in 1..Len(refreshCalls)
    /\ \E m \in {refreshAnswered([Cur EXCEPT !.refreshCalls =
                                        RemoveAt(refreshCalls, i)],
                                   refreshCalls[i], resp, h)} :
           /\ Commit(m)
           /\ last' = Last("refreshAnswer", 0, Num(0), resp,
                           IF m.refreshQueue = <<>> THEN "drained" ELSE "queued")
    /\ UNCHANGED <<config, initCall, callbackStorage, now>>

\* the host calls setToken
SetToken(tk, rt, it, timeLocal, h) ==
    /\ \E m \in {setToken(Cur, tk, rt, it, timeLocal, h)} :
           /\ Commit(m)
           /\ last' = Last("setToken", 0, Num(0), TransportError, m.exc)
    /\ UNCHANGED <<config, initCall, callbackStorage, now>>

\* the host calls clearToken
ClearToken(h) ==
    /\ \E m \in {clearToken(Cur, h)} :
           /\ Commit(m)
           /\ last' = Last("clearToken", 0, Num(0), TransportError, m.exc)
    /\ UNCHANGED <<config, initCall, callbackStorage, now>>

\* an armed expiry timer fires: setTimeout(this.onTokenExpired, expiresIn)
TimerFires(t, h) ==
    /\ t \in timers
    /\ \E m \in {Notify([Cur EXCEPT !.timers = @ \ {t}], "onTokenExpired", h)} :
           /\ Commit(m)
           /\ last' = Last("timer", 0, Num(0), TransportError, Undefined)
    /\ UNCHANGED <<config, initCall, callbackStorage, now>>

\* the host calls createLoginUrl(options); the storage has room
CreateLoginUrl(options, state, nonce, verifier) ==
    /\ Cardinality(DOMAIN callbackStorage) < MaxPending
    /\ ~storageHas(callbackStorage, state)
    /\ LET cs == callbackStateOf(options, state, nonce, verifier)
       IN  /\ callbackStorage' = storageAdd(callbackStorage, cs)
           /\ last' = Last("createLoginUrl", 0, Num(0),
                           [callbackState |-> cs,
                            url |-> loginUrlOf(options, state, nonce, verifier)],
                           Undefined)
    /\ log' = <<>>
    /\ UNCHANGED <<config, initCall, session, timers, refreshCalls, exchangeCalls, now, status,
                   observed>>

\* the adapter's storage drops an entry: its entries are time-bounded
StorageExpires(state) ==
    /\ storageHas(callbackStorage, state)
    /\ callbackStorage' = Restrict(callbackStorage, (DOMAIN callbackStorage) \ {state})
    /\ last' = Last("storageExpires", 0, Num(0), TransportError, Undefined)
    /\ log' = <<>>
    /\ UNCHANGED <<config, initCall, session, timers, refreshCalls, exchangeCalls, now, status,
                   observed>>

\* the host calls parseCallback(url)
ParseCallback(url) ==
    /\ last' = Last("parseCallback", 0, Num(0),
                    [url |-> url, oauth |-> parseCallback(callbackStorage, url)],
                    Undefined)
    /\ log' = <<>>
    /\ UNCHANGED <<config, initCall, session, timers, refreshCalls, exchangeCalls,
                   callbackStorage, now, status, observed>>

\* the host hands the parsed callback to processCallback
ProcessCallback(url, h) ==
    /\ Len(exchangeCalls) < MaxExchanges
    /\ \E oauth \in {parseCallback(callbackStorage, url)} :
       \E m \in {processCallback(Cur, oauth, h)} :
           /\ Commit(m)
           /\ last' = Last("processCallback", 0, Num(0), oauth,
                           IF Len(m.exchangeCalls) > Len(exchangeCalls)
                           THEN "awaiting" ELSE m.exc)
    /\ UNCHANGED <<config, initCall, callbackStorage, now>>

\* adapter.fetchTokens answers the i-th call in flight
ExchangeAnswer(i, resp, h) ==
    /\ i \in 1..Len(exchangeCalls)
    /\ \E m \in {exchangeAnswered([Cur EXCEPT !.exchangeCalls =
                                         RemoveAt(exchangeCalls, i)],
                                    exchangeCalls[i], resp, h)} :
           /\ Commit(m)
           /\ last' = Last("exchangeAnswer", 0, Num(0),
                           [resp |-> resp, call |-> exchangeCalls[i]], m.exc)
    /\ UNCHANGED <<config, initCall, callbackStorage, now>>

\* the host calls isTokenExpired(minValidity): the outcome is what is thrown,
\* or the value returned
IsTokenExpired(mv) ==
    /\ \E r \in {isTokenExpired(Cur, mv)} :
           last' = Last("isTokenExpired", 0, mv, TransportError,
                        IF r.throws # Undefined THEN r.throws
                        ELSE IF r.value THEN "true" ELSE "false")
    /\ log' = <<>>
    /\ UNCHANGED <<config, initCall, session, timers, refreshCalls, exchangeCalls,
                   callbackStorage, now, status, observed>>

Tick ==
    /\ now < Clock(MaxTicks)
    /\ now' = now + 500
    /\ last' = Last("tick", 0, Num(0), TransportError, Undefined)
    /\ log' = <<>>
    /\ UNCHANGED <<config, initCall, session, timers, refreshCalls, exchangeCalls,
                   callbackStorage, status, observed>>

\* the host calls init(o), once; the configuration is that of o
\* (client.ts:139-141), the adapter's configuration is loaded
InitCalled(o, h) ==
    /\ initCall.pc = "idle"
    /\ loginRequired <=> (o.onLoad = "login-required")
    /\ \E r \in {processInit(Cur, o, h)} :
          IF r.await # 0
          THEN /\ Commit(r.m)
               /\ initCall' = InitCallOf("awaiting", r.await, o)
               /\ last' = Last("init", r.await, Num(-1), TransportError, "awaiting")
          ELSE \E m \in {initReturns(r.m, h)} :
                  /\ Commit(m)
                  /\ initCall' = InitCallOf("returned", 0, o)
                  /\ last' = Last("init", 0, Num(0), TransportError, initResult(m))
    /\ UNCHANGED <<config, callbackStorage, now>>

\* the Deferred that init awaits has been settled: init resumes, before any
\* other task runs
InitReady == initCall.pc = "awaiting" /\ status[initCall.c] # "pending"

InitResumes(h) ==
    /\ InitReady
    /\ \E m \in {initReturns(processInitResumed(Cur, status[initCall.c],
                                                 initCall.o, h), h)} :
           /\ Commit(m)
           /\ initCall' = InitCallOf("returned", initCall.c, initCall.o)
           /\ last' = Last("initResumes", initCall.c, Num(-1), TransportError,
                           initResult(m))
    /\ UNCHANGED <<config, callbackStorage, now>>

\* what the host passes to setToken
HostTokens ==
    {<<Undefined, "R1", Undefined>>, <<"A1", "R1", "I1">>, <<"A2", "R1", Undefined>>,
     <<"A2", Undefined, Undefined>>, <<"X0", "R1", Undefined>>,
     <<"A1", "XT", Undefined>>}

Init == InitWith({"standard", "implicit"}, {FALSE}, BOOLEAN, {"fragment"}, {Undefined})

Next ==
    \/ \E c \in Callers, mv \in MinValidities : UpdateToken(c, mv)
    \/ \E i \in 1..MaxCallers, resp \in TokenResponses,
          h \in Reentries({"onTokenExpired", "onAuthRefreshSuccess",
                           "onAuthRefreshError", "onAuthLogout"}) :
          RefreshAnswer(i, resp, h)
    \/ \E t \in HostTokens, tl \in {None, Some(now)},
          h \in Reentries({"onTokenExpired"}) :
          SetToken(t[1], t[2], t[3], tl, h)
    \/ \E h \in Reentries({"onAuthLogout"}) : ClearToken(h)
    \/ \E t \in 1..2, h \in Reentries({"onTokenExpired"}) : TimerFires(t, h)
    \/ Tick

Spec == Init /\ [][Next]_vars

(***************************************************************************)
(* The login and callback side: login URLs, callbacks and code exchanges,  *)
(* with the host's setToken and clearToken calls.                          *)
(***************************************************************************)
StateIds == {"S1", "S2"}
Nonces == {"N1", "N2"}
Verifiers == {"V1"}

LoginOptions ==
    {EmptyObject,
     [prompt |-> "none"],
     [scope |-> "profile", redirectUri |-> "https://app/other", prompt |-> "login",
      locale |-> "en", foo |-> "bar"]}

InFragment(params) == [q |-> None, f |-> Some(params)]
InQuery(params) == [q |-> Some(params), f |-> None]

CallbackUrls ==
    {InFragment([code |-> "c1", state |-> "S1"]),
     InFragment([code |-> "c1", state |-> "S2"]),
     InFragment([error |-> "access_denied", state |-> "S1"]),
     InFragment([error |-> "access_denied", state |-> "S2"]),
     InFragment([error |-> "access_denied", code |-> "c1", access_token |-> "A1",
                 state |-> "S1"]),
     InFragment([access_token |-> "A1", id_token |-> "I1", state |-> "S1"]),
     InFragment([code |-> "c1", access_token |-> "A2", state |-> "S1"]),
     InFragment([code |-> "c1", id_token |-> "I1", state |-> "S1"]),
     InFragment([code |-> "c1"]),
     InQuery([code |-> "c1", state |-> "S1", kc_action_status |-> "success",
              lang |-> "en"]),
     InQuery([error |-> "access_denied", state |-> "S1"]),
     [q |-> Some([page |-> "2"]), f |-> Some([code |-> "c1", state |-> "S1"])]}

FragmentUrls == {u \in CallbackUrls : u.q = None}

\* login URLs and callback parsing alone
ParseInit ==
    InitWith(Flows, BOOLEAN, {FALSE}, {"query", "fragment"}, {Undefined, "S256"})

ParseNext ==
    \/ \E o \in LoginOptions, s \in StateIds, n \in Nonces, v \in Verifiers :
          CreateLoginUrl(o, s, n, v)
    \/ \E s \in StateIds : StorageExpires(s)
    \/ \E u \in CallbackUrls : ParseCallback(u)

ParseSpec == ParseInit /\ [][ParseNext]_vars

\* callback processing and code exchange
LoginInit == InitWith(Flows, BOOLEAN, {FALSE}, {"fragment"}, {Undefined, "S256"})

LoginNext ==
    \/ \E o \in LoginOptions \ {EmptyObject}, n \in Nonces, v \in Verifiers :
          CreateLoginUrl(o, "S1", n, v)
    \/ \E s \in StateIds : StorageExpires(s)
    \/ \E u \in FragmentUrls : ProcessCallback(u, NoReentry)
    \/ \E i \in 1..MaxExchanges, resp \in TokenResponses :
          ExchangeAnswer(i, resp, NoReentry)
    \/ SetToken("A2", "R1", Undefined, Some(now), NoReentry)
    \/ ClearToken(NoReentry)

LoginSpec == LoginInit /\ [][LoginNext]_vars

\* the expiry query on the sessions that setToken and clearToken leave
ExpiryArgs == {Num(-5), Num(-1), Num(0), Num(1), Num(DefaultMinValidity), Num(10),
               NaN, Infinity}

ExpiryInit == InitWith({"standard", "implicit"}, {FALSE}, {FALSE}, {"fragment"},
                       {Undefined})

ExpiryNext ==
    \/ \E t \in HostTokens, tl \in {None, Some(now)} :
          SetToken(t[1], t[2], t[3], tl, NoReentry)
    \/ ClearToken(NoReentry)
    \/ \E mv \in ExpiryArgs : IsTokenExpired(mv)
    \/ Tick

ExpirySpec == ExpiryInit /\ [][ExpiryNext]_vars

(***************************************************************************)
(* init with and without stored tokens, and what runs beside it once it    *)
(* has been called.                                                        *)
(***************************************************************************)
StoredInit == Constructed({"standard"}, {FALSE}, BOOLEAN, {"fragment"}, {Undefined})
                 /\ initCall = InitCallOf("idle", 0, NoOptions)

StoredOptions ==
    {InitOptionsOf(t[1], t[2], t[3], ol) :
        t \in {<<"A1", "R1", "I1">>, <<"A2", "R1", Undefined>>,
               <<"X0", "R1", Undefined>>, <<"A1", "XT", Undefined>>,
               <<"A1", Undefined, Undefined>>,
               <<Undefined, Undefined, Undefined>>},
        ol \in {Undefined, "check-sso", "login-required", "sso"}}

InitHooks ==
    Reentries({"onTokenExpired", "onAuthRefreshError", "onAuthError",
               "onAuthSuccess", "onReady_true"})

\* init has been called and is not about to resume
InitStarted == initCall.pc # "idle" /\ ~InitReady

StoredNext ==
    \/ \E o \in StoredOptions, h \in InitHooks : InitCalled(o, h)
    \/ \E h \in InitHooks : InitResumes(h)
    \/ \E c \in Callers, mv \in {Num(-1), Num(DefaultMinValidity)} :
          InitStarted /\ UpdateToken(c, mv)
    \/ \E resp \in TokenResponses, h \in InitHooks :
          InitStarted /\ RefreshAnswer(1, resp, h)
    \/ InitStarted /\ ClearToken(NoReentry)
    \/ InitStarted /\ Tick

StoredSpec == StoredInit /\ [][StoredNext]_vars

(***************************************************************************)
(* The refresh under the assumption that adapter.refreshTokens answers     *)
(* every call in the end: it returns tokens, returns an error, or throws.  *)
(***************************************************************************)
FairInit == InitWith({"standard"}, {FALSE}, {FALSE}, {"fragment"}, {Undefined})

FairResponses ==
    {TransportError,
     TokenResponse("invalid_grant", Undefined, Undefined, Undefined),
     TokenResponse(Undefined, "A1", "R1", Undefined),
     TokenResponse(Undefined, "A2", "R1", Undefined),
     TokenResponse(Undefined, "X0", "R1", Undefined)}

RefreshAnswers ==
    \E resp \in FairResponses,
       h \in Reentries({"onTokenExpired", "onAuthRefreshSuccess",
                        "onAuthRefreshError", "onAuthLogout"}) :
       RefreshAnswer(1, resp, h)

FairNext ==
    \/ \E c \in Callers, mv \in {Num(-1), Num(DefaultMinValidity)} :
          UpdateToken(c, mv)
    \/ RefreshAnswers
    \/ \E tk \in {"A1", "A2"}, h \in Reentries({"onTokenExpired"}) :
          SetToken(tk, "R1", Undefined, Some(now), h)
    \/ \E h \in Reentries({"onAuthLogout"}) : ClearToken(h)

FairSpec == FairInit /\ [][FairNext]_vars /\ WF_vars(RefreshAnswers)

(***************************************************************************)
(* The properties.                                                         *)
(***************************************************************************)
Events == {log[i].e : i \in DOMAIN log}
HasEvent(e) == e \in Events
Pending(c) == status[c] = "pending"
TokensAbsent ==
    /\ ~Truthy(token) /\ ~tokenParsed.ok
    /\ ~Truthy(refreshToken) /\ ~refreshTokenParsed.ok
    /\ ~Truthy(idToken) /\ ~idTokenParsed.ok
tokenState ==
    <<authenticated, subject, token, tokenParsed, refreshToken, refreshTokenParsed,
      idToken, idTokenParsed>>

\* C1: at every moment at most one adapter.refreshTokens call is in flight,
\* whatever updateToken calls were made and however they interleave.
C1_SingleFlight == Len(refreshCalls) <= 1

\* C1 witness: a refresh is in flight, its dispatcher and a caller that
\* arrived meanwhile are both waiting on it.
C1_Witness ==
    /\ Len(refreshCalls) = 1
    /\ Len(refreshQueue) >= 2
    /\ last.op = "updateToken"

\* C3: every updateToken call eventually settles, given that the refresh call
\* in flight is eventually answered (FairSpec): a pending Deferred does not
\* stay pending, whether its call dispatched the refresh, arrived while it was
\* in flight, or was made from a notification hook.
C3_EveryCallSettles == \A c \in Callers : Pending(c) ~> ~Pending(c)

\* C3 witness: a call made from the onAuthRefreshSuccess hook, while the
\* answer was being handled, was settled by the drain.
C3_Witness ==
    /\ last.op = "refreshAnswer"
    /\ \E i \in DOMAIN log :
          /\ i > 1
          /\ log[i].e = "updateToken"
          /\ log[i - 1].e = "onAuthRefreshSuccess"
          /\ status[log[i].c] = "resolved_true"
          /\ status[log[i].c] = "resolved_true"

\* C4 (as claimed): when the refresh call fails (the transport throws, or the
\* response carries an error) the tokens are cleared, auth-refresh-error is
\* fired and every waiter is rejected, leaving the queue empty.
C4_Claim ==
    (last.op = "refreshAnswer" /\ (last.arg.throws \/ Truthy(last.arg.error)))
    => /\ ~authenticated
       /\ TokensAbsent
       /\ HasEvent("onAuthRefreshError")
       /\ refreshQueue = <<>>
       /\ \A c \in Callers : ~Pending(c)

\* C6 (as claimed): all updateToken calls made with a refresh token present
\* before the refresh answer arrives observe one and the same outcome.
C6_Claim == Cardinality(observed) <= 1

\* C6 (amended): the calls waiting on the same refresh are settled together
\* and alike: two Deferreds that are pending before a step are both still
\* pending after it, or both have the same outcome.
C6_WaitersAgree ==
    [][\A c1, c2 \in Callers :
          (Pending(c1) /\ Pending(c2)) => status'[c1] = status'[c2]]_vars

\* C6 witness: a refresh was answered with two callers waiting on it.
C6_Witness ==
    /\ last.op = "refreshAnswer"
    /\ \A c \in Callers : status[c] = "rejected_refresh"

\* C7 (as claimed): for each of the access, refresh and id tokens the parsed
\* claims are present exactly when the raw token is.
C7_Claim ==
    /\ tokenParsed.ok <=> Truthy(token)
    /\ refreshTokenParsed.ok <=> Truthy(refreshToken)
    /\ idTokenParsed.ok <=> Truthy(idToken)

\* no refresh is needed, as C8 words it
NoRefreshNeeded(mv) ==
    /\ mv # Num(-1)
    /\ tokenParsed.ok
    /\ isTokenExpired(Cur, mv) = [throws |-> Undefined, value |-> FALSE]

\* C8 (as claimed): updateToken resolves false exactly when no refresh is
\* needed.
C8_Claim ==
    [][last'.op = "updateToken"
       => (status'[last'.c] = "resolved_false" <=> NoRefreshNeeded(last'.mv))]_vars

\* C8 (amended): with a refresh token present, updateToken resolves false
\* exactly when no refresh is needed; it then dispatches nothing, enqueues
\* nothing and changes no session state; and updateToken(-1) never does.
C8_FalseIffNotNeeded ==
    [][(last'.op = "updateToken" /\ Truthy(refreshToken))
       => /\ status'[last'.c] = "resolved_false" <=> NoRefreshNeeded(last'.mv)
          /\ status'[last'.c] = "resolved_false"
                => UNCHANGED <<session, timers, refreshCalls, exchangeCalls>>
          /\ last'.mv = Num(-1) => status'[last'.c] # "resolved_false"]_vars

\* C8 witness: a call resolved false while a refresh was in flight.
C8_Witness ==
    /\ last.op = "updateToken"
    /\ last.out = "resolved_false"
    /\ Len(refreshCalls) = 1

\* C9: updateToken without a refresh token fails at once: it rejects its
\* Deferred, dispatches nothing, enqueues nothing and changes no session
\* state, also while a refresh is in flight.
C9_NoRefreshToken ==
    [][(last'.op = "updateToken" /\ ~Truthy(refreshToken))
       => /\ status'[last'.c] = "rejected_missing"
          /\ UNCHANGED <<session, timers, refreshCalls, exchangeCalls>>]_vars

\* C9 witness: a call was rejected for the missing refresh token while a
\* refresh was in flight.
C9_Witness ==
    /\ last.op = "updateToken"
    /\ last.out = "rejected_missing"
    /\ Len(refreshCalls) = 1
    /\ refreshQueue # <<>>

\* C2 (as claimed): a nonce mismatch found by processCallback leaves the
\* session unauthenticated with no raw or parsed access, refresh or id token,
\* whichever tokens the response carried.
C2_Claim == HasEvent("invalidNonce") => (~authenticated /\ TokensAbsent)

\* C5 (as claimed): when the code exchange fails (the transport throws, or the
\* token response carries an error) processCallback emits auth-error, fails,
\* and leaves the session's token state as it was.
C5_Claim ==
    [][(/\ last'.op = "exchangeAnswer"
        /\ last'.arg.resp.throws \/ Truthy(last'.arg.resp.error))
       => /\ "onAuthError" \in {log'[i].e : i \in DOMAIN log'}
          /\ last'.out # Undefined
          /\ tokenState' = tokenState]_vars

\* C10: parseCallback of a callback whose state has a CallbackState in the
\* storage returns that entry's redirectUri, nonce (as storedNonce), prompt and
\* PKCE verifier, the entry being the one createLoginUrl added under that
\* state; for a state with no entry it returns none of the four, also when
\* the callback carries a code or an error.
C10_ParseMatchesStore ==
    /\ \A k \in DOMAIN callbackStorage : callbackStorage[k].state = k
    /\ last.op = "createLoginUrl"
          => /\ storageHas(callbackStorage, last.arg.callbackState.state)
             /\ callbackStorage[last.arg.callbackState.state] = last.arg.callbackState
    /\ last.op = "parseCallback"
          => LET o == last.arg.oauth
                 state == Get(o, "state")
             IN  IF storageHas(callbackStorage, state)
                 THEN /\ Get(o, "redirectUri") = callbackStorage[state].redirectUri
                      /\ Get(o, "storedNonce") = callbackStorage[state].nonce
                      /\ Get(o, "prompt") = callbackStorage[state].prompt
                      /\ Get(o, "pkceCodeVerifier")
                            = callbackStorage[state].pkceCodeVerifier
                 ELSE \A k \in {"redirectUri", "storedNonce", "prompt",
                                "pkceCodeVerifier"} : Get(o, k) = Undefined

\* C10 witness: a callback carrying a code was matched to a stored request
\* that has a PKCE verifier and a prompt.
C10_Witness ==
    /\ last.op = "parseCallback"
    /\ Truthy(Get(last.arg.oauth, "code"))
    /\ storageHas(callbackStorage, Get(last.arg.oauth, "state"))
    /\ Get(last.arg.oauth, "storedNonce") = "N2"
    /\ Get(last.arg.oauth, "pkceCodeVerifier") = "V1"
    /\ Get(last.arg.oauth, "prompt") = "none"

\* the callback handed to processCallback was matched to a stored request
Matched(oauth) == storageHas(callbackStorage, Get(oauth, "state"))

\* every token of the response that decodes carries the nonce expected
NoncePasses(resp, storedNonce) ==
    \A t \in {resp.access_token, resp.refresh_token, resp.id_token} :
        (Truthy(t) /\ decodeToken(t).r = "ok")
            => decodeToken(t).claims.nonce = storedNonce

\* the standard flow's processCallback of a matched callback with a code
\* dispatches one exchange request with the stored redirect URI and verifier
C11_Dispatch ==
    (/\ last'.op = "processCallback"
     /\ flow = "standard"
     /\ Matched(last'.arg)
     /\ Truthy(Get(last'.arg, "code"))
     /\ ~Truthy(Get(last'.arg, "error")))
    => LET stored == callbackStorage[last'.arg["state"]]
           expected == [grant_type |-> "authorization_code",
                        code |-> last'.arg["code"],
                        client_id |-> ClientId,
                        redirect_uri |-> stored.redirectUri]
       IN  /\ Len(exchangeCalls') = Len(exchangeCalls) + 1
           /\ exchangeCalls'[Len(exchangeCalls')].request
                 = IF stored.pkceCodeVerifier = Undefined THEN expected
                   ELSE SetIf(expected, TRUE, "code_verifier", stored.pkceCodeVerifier)

\* the exchange of the standard flow returned an access token and the nonce
\* verification passes or is disabled
C11_Returned ==
    /\ last'.op = "exchangeAnswer"
    /\ flow = "standard"
    /\ ~last'.arg.resp.throws
    /\ ~Truthy(last'.arg.resp.error)
    /\ Truthy(last'.arg.resp.access_token)
    /\ useNonce => NoncePasses(last'.arg.resp, Get(last'.arg.call.oauth, "storedNonce"))

C12_ErrorCallback ==
    [][(last'.op = "processCallback" /\ Truthy(Get(last'.arg, "error")))
       => /\ exchangeCalls' = exchangeCalls
          /\ tokenState' = tokenState
          /\ "fetchTokens" \notin Events'
          /\ IF Get(last'.arg, "prompt") = "none"
             THEN /\ last'.out = Undefined
                  /\ "onAuthError" \notin Events'
                  /\ "onAuthSuccess" \notin Events'
             ELSE /\ last'.out = "authorization error"
                  /\ "onAuthError" \in Events']_vars

\* C12 witness: a silent check (prompt "none") came back with an error, code
\* and access token while a session was held, and left it as it was.
C12_Witness ==
    /\ last.op = "processCallback"
    /\ Truthy(Get(last.arg, "error"))
    /\ Truthy(Get(last.arg, "code"))
    /\ Get(last.arg, "prompt") = "none"
    /\ last.out = Undefined
    /\ authenticated /\ token = "A2"

\* C12 witness of the other case: the error of a login with a prompt other
\* than "none" was reported.
C12_WitnessLoud ==
    /\ last.op = "processCallback"
    /\ Truthy(Get(last.arg, "error"))
    /\ Get(last.arg, "prompt") = "login"
    /\ last.out = "authorization error"

\* the session isTokenExpired accepts: parsed access claims, and a refresh
\* token unless the flow is implicit
Authenticated ==
    tokenParsed.ok /\ (Truthy(refreshToken) \/ flow = "implicit")

\* C13 (as claimed): isTokenExpired called on an authenticated session with
\* a minValidity that is NaN or infinite fails with 'Invalid minValidity'.
C13_Claim ==
    (/\ last.op = "isTokenExpired"
     /\ last.mv \in {NaN, Infinity}
     /\ Authenticated)
    => last.out = "Invalid minValidity"

\* the order of the numbers passed as minValidity, +Infinity on top
Leq(m1, m2) ==
    /\ m1.k # "nan" /\ m2.k # "nan"
    /\ m2.k = "inf" \/ (m1.k = "num" /\ m2.k = "num" /\ m1.v <= m2.v)

\* C14: isTokenExpired is monotonic in minValidity: in one session state
\* (claims, timeSkew, time), for numbers m1 <= m2, if isTokenExpired(m1)
\* returns true then isTokenExpired(m2) returns true, and the two calls fail
\* alike.
C14_Monotonic ==
    \A m1, m2 \in ExpiryArgs :
        Leq(m1, m2) =>
            /\ isTokenExpired(Cur, m1).throws = isTokenExpired(Cur, m2).throws
            /\ isTokenExpired(Cur, m1).value => isTokenExpired(Cur, m2).value

\* C14 witness: with the skew known, a call just returned false for a
\* minValidity below one for which the token counts as expired, and true for
\* none above it: the threshold lies strictly inside the arguments tried.
C14_Witness ==
    /\ last.op = "isTokenExpired"
    /\ last.mv = Num(-1)
    /\ last.out = "false"
    /\ timeSkew # None
    /\ isTokenExpired(Cur, Num(-5)).value = FALSE
    /\ isTokenExpired(Cur, Num(0)).value = TRUE
    /\ isTokenExpired(Cur, Num(10)).value = TRUE

\* C15: at most one expiry timer is armed at any time, and it is the one
\* tokenTimeoutHandle names: every setToken (the ones made by clearToken and
\* by a completing refresh included) cancels the timer armed before, so the
\* only timer that can fire onTokenExpired is the one armed last.
C15_OneTimer ==
    /\ Cardinality(timers) <= 1
    /\ timers \subseteq {tokenTimeoutHandle}

\* C15 witness: the setToken of a completing refresh cancelled the timer of
\* the tokens it replaced and armed one for the new access token.
C15_Witness ==
    /\ last.op = "refreshAnswer"
    /\ HasEvent("clearTimeout")
    /\ Cardinality(timers) = 1
    /\ token = "A2"

\* C16 (as claimed, its first part): clearToken, called in any session
\* state, leaves the session unauthenticated with no raw or parsed access,
\* refresh or id token.  (The claim goes on: it fires the logout notification
\* and starts a login when login is required.)
C16_Claim ==
    last.op = "clearToken" => (~authenticated /\ TokensAbsent)

\* C17 (as claimed): processCallback of an OAuthResponse that parseCallback
\* matched to no stored request dispatches no code exchange and leaves the
\* session's token state alone.
C17_Claim ==
    [][(last'.op = "processCallback" /\ ~Matched(last'.arg))
       => /\ exchangeCalls' = exchangeCalls
          /\ tokenState' = tokenState]_vars

\* C18 (as claimed): a stored request is read at most once: once
\* parseCallback has matched a callback to the request stored under its
\* state, a later parseCallback of the same callback URL finds no match.
C18_Claim ==
    [][(last'.op = "parseCallback" /\ Get(last'.arg.oauth, "valid") = "true")
       => Get(parseCallback(callbackStorage', last'.arg.url), "valid") # "true"]_vars

\* C19 (as claimed): in the hybrid flow processCallback of a callback that
\* carries an authorization code and no error exchanges the code at the token
\* endpoint, also when the callback carries an access_token or id_token.
C19_Claim ==
    [][(/\ last'.op = "processCallback"
        /\ flow = "hybrid"
        /\ Truthy(Get(last'.arg, "code"))
        /\ ~Truthy(Get(last'.arg, "error")))
       => /\ "fetchTokens" \in Events'
          /\ Len(exchangeCalls') = Len(exchangeCalls) + 1]_vars

\* how many times the last action emitted the event e
Count(e) == Cardinality({i \in DOMAIN log : log[i].e = e})

\* C20 (as claimed): a processCallback that commits tokens (directly, or when
\* its code exchange is answered) and passes or skips the nonce verification
\* emits auth-success exactly once, in every flow; one that fails, the nonce
\* verification included, emits none.
C20_Claim ==
    (/\ last.op \in {"processCallback", "exchangeAnswer"}
     /\ HasEvent("setToken"))
    => IF last.out = Undefined /\ Truthy(token)
       THEN Count("onAuthSuccess") = 1
       ELSE HasEvent("invalidNonce") => Count("onAuthSuccess") = 0

\* how many times the action just taken settled caller c's queued Deferred
Settlements(c) ==
    Cardinality({i \in DOMAIN log :
                    log[i].c = c /\ log[i].e \in {"resolved_true", "rejected_refresh"}})

\* C21: the refresh queue is non-empty exactly while a refreshTokens call is
\* in flight; the answer to the call, success or failure, settles every queued
\* waiter exactly once and leaves the queue empty, so that the next
\* updateToken call that needs a refresh dispatches a new call.
C21_QueueFollowsCall ==
    [][/\ (refreshQueue' # <<>>) <=> (refreshCalls' # <<>>)
       /\ last'.op = "refreshAnswer"
             => /\ refreshQueue' = <<>>
                /\ \A c \in Callers :
                      /\ ~Pending(c)'
                      /\ Settlements(c)' <= 1
                      /\ Pending(c) => Settlements(c)' = 1
       /\ (/\ last'.op = "updateToken"
           /\ refreshCalls = <<>>
           /\ status'[last'.c] = "pending")
             => /\ Len(refreshCalls') = 1
                /\ refreshQueue' = <<last'.c>>]_vars

\* C21 witness: the answer to a refresh settled two queued waiters and left
\* the queue empty with no call in flight.
C21_Witness ==
    /\ last.op = "refreshAnswer"
    /\ refreshQueue = <<>> /\ refreshCalls = <<>>
    /\ \A c \in Callers : Settlements(c) = 1

\* the refresh call returned tokens that setToken accepts
RefreshSucceeds(resp) ==
    /\ ~resp.throws
    /\ ~Truthy(resp.error)
    /\ \A t \in {resp.access_token, resp.refresh_token, resp.id_token} :
          Truthy(t) => decodeToken(t).r = "ok"

\* C22: on a successful refresh the new tokens are committed through
\* setToken, then auth-refresh-success is fired, then every queued waiter,
\* the dispatcher's included, is resolved with true: no waiter is settled
\* before the commit and the notification.
C22_SuccessOrder ==
    (last.op = "refreshAnswer" /\ RefreshSucceeds(last.arg))
    => /\ Count("setToken") = 1
       /\ Count("onAuthRefreshSuccess") = 1
       /\ Count("resolved_true") >= 1
       /\ Count("rejected_refresh") = 0
       /\ \A c \in Callers : ~Pending(c)
       /\ token = last.arg.access_token
       /\ refreshToken = last.arg.refresh_token
       /\ \A i, j, k \in DOMAIN log :
             (/\ log[i].e = "setToken"
              /\ log[j].e = "onAuthRefreshSuccess"
              /\ log[k].e = "resolved_true")
             => (i < j /\ j < k)

\* C22 witness: a successful refresh committed A2, notified, and resolved the
\* two callers that were waiting.
C22_Witness ==
    /\ last.op = "refreshAnswer"
    /\ RefreshSucceeds(last.arg)
    /\ token = "A2"
    /\ Count("resolved_true") = 2

\* event ev settles the queued Deferred of caller c
Settles(ev, c) == ev.c = c /\ ev.e \in {"resolved_true", "rejected_refresh"}

\* C23 (as claimed): queued waiters are settled in FIFO order: when the
\* refresh call completes, a waiter enqueued earlier is resolved or rejected
\* before one enqueued later.
C23_Claim ==
    [][last'.op = "refreshAnswer"
       => \A a, b \in DOMAIN refreshQueue :
             a < b => \A i, j \in DOMAIN log' :
                         (/\ Settles(log'[i], refreshQueue[a])
                          /\ Settles(log'[j], refreshQueue[b])) => i < j]_vars

\* C24 (as claimed): in every reachable state authenticated is true exactly
\* when parsed access-token claims are present, and subject, realmAccess and
\* resourceAccess are those of the access token currently stored (absent when
\* none is stored), also after calls in which decoding the access token
\* fails.
C24_Claim ==
    /\ authenticated <=> tokenParsed.ok
    /\ IF Truthy(token)
       THEN /\ subject = decodeToken(token).claims.sub
            /\ realmAccess = decodeToken(token).claims.realm_access
            /\ resourceAccess = decodeToken(token).claims.resource_access
       ELSE /\ subject = Undefined
            /\ realmAccess = Undefined
            /\ resourceAccess = Undefined

\* C25 (as claimed, its first part): a refresh answer that arrives after
\* clearToken ran while the refresh was in flight does not re-authenticate
\* the session: authenticated stays false.  (The claim goes on: and the
\* tokens stay absent.)
C25_Claim ==
    [][(/\ last.op = "clearToken"
        /\ HasEvent("onAuthLogout")
        /\ refreshCalls # <<>>
        /\ last'.op = "refreshAnswer")
       => ~authenticated']_vars

\* C26 (as claimed): when the forced refresh that init awaits has failed, init
\* either fails or reports authenticated = false, to onReady and as its
\* result, and it never emits both an auth-error notification and
\* onReady(true).
C26_Claim ==
    [][(/\ initCall.pc = "awaiting"
        /\ status[initCall.c] = "rejected_refresh"
        /\ initCall'.pc = "returned")
       => /\ last'.out \in {"failed", "false"}
          /\ ~HasEvent("onReady_true")'
          /\ ~(HasEvent("onAuthError")' /\ HasEvent("onReady_true")')]_vars

====
